---- MODULE Spec2Model ----
(***************************************************************************)
(* A model of lib/storage/leveldb.go: the LevelDBBackend storage handle    *)
(* (existence-checked mutations, batches, transactions, iterators) over    *)
(* the goleveldb engine reached through the LevelDBCore interface.         *)
(***************************************************************************)
EXTENDS Integers, Sequences, FiniteSets, TLC

(***************************************************************************)
(* Bounds of the model.                                                    *)
(***************************************************************************)
\* plain (JSON-encodable) values are 1..MaxVal
MaxVal == 2
\* longest batch handed to News / Sets
MaxBatch == 2
\* number of transaction handles OpenTransaction can hand out in one run
MaxTx == 1
\* number of next() and release() calls made on one iteration session
MaxCalls == 5

\* Keys are byte strings; makeKey is the identity on the bytes of the string.
\* "a", "ab", "b": the store holds keys of Keys; the mutations of the
\* sequential and the interleaved specification are driven with CallKeys.
Keys == {<<97>>, <<97, 98>>, <<98>>}
CallKeys == {<<97>>, <<98>>}

\* Handle 0 is the handle made by Init (core = *leveldb.DB); 1..MaxTx are the
\* handles OpenTransaction returns (core = *leveldb.Transaction).
Root == 0
TxIds == 1..MaxTx
Handles == {Root} \cup TxIds

\* The two concurrent callers of the interleaved specification.
Callers == {1, 2}

(***************************************************************************)
(* Values (the interface{} arguments) and stored bytes.                    *)
(*   kind "plain": an ordinary value; n = 0 stands for a value the JSON    *)
(*                 encoder rejects (a channel, a func).                    *)
(*   kind "ser"  : a value with the Serializable capability; n = 0 stands  *)
(*                 for one whose Serialize() returns an error.             *)
(*   kind "map"  : what decoding a JSON object into interface{} yields.    *)
(***************************************************************************)
Plain(n) == [kind |-> "plain", key |-> <<>>, n |-> n]
PlainVals == {Plain(n) : n \in 1..MaxVal}
BadVal == Plain(0)
SerBad == [kind |-> "ser", key |-> <<>>, n |-> 0]
NoVal  == [kind |-> "none", key |-> <<>>, n |-> 0]
Values == PlainVals \cup {BadVal, SerBad}
\* the values Set and the batch operations are driven with (New is driven
\* with all of Values: it alone consults the Serializable capability)
SetVals == PlainVals \cup {BadVal}
BatchVals == PlainVals \cup {BadVal}

Item(k, v) == [Key |-> k, Value |-> v]

\* Stored bytes, by their content:
\*   "num"  the JSON text of the number n
\*   "obj"  the JSON text of an Item {"Key": key, "Value": n}
\*   "jser" the JSON text of a Serializable struct
\*   "raw"  the output of a custom Serialize()
\*   "none" no record / a deletion record; "untouched" no entry in a buffer
Bytes(t, k, n) == [t |-> t, key |-> k, n |-> n]
NoRec == Bytes("none", <<>>, 0)
Untouched == Bytes("untouched", <<>>, 0)

\* sebakcommon.EncodeJSONValue applied to a value.
EncodeJSONValue(v) ==
  IF v.kind = "plain"
    THEN IF v.n = 0 THEN [ok |-> FALSE, b |-> NoRec]
                    ELSE [ok |-> TRUE, b |-> Bytes("num", <<>>, v.n)]
    ELSE [ok |-> TRUE, b |-> Bytes("jser", <<>>, v.n)]

\* sebakcommon.EncodeJSONValue applied to an Item (the struct, Key and Value).
EncodeJSONItem(it) ==
  LET inner == EncodeJSONValue(it.Value)
  IN IF inner.ok THEN [ok |-> TRUE, b |-> Bytes("obj", it.Key, it.Value.n)]
                 ELSE [ok |-> FALSE, b |-> NoRec]

\* Serializable.Serialize() of a value with the capability.
Serialize(v) ==
  IF v.n = 0 THEN [ok |-> FALSE, b |-> NoRec]
             ELSE [ok |-> TRUE, b |-> Bytes("raw", <<>>, v.n)]

\* json.Unmarshal(b, &i) into an interface{} target.
Unmarshal(b) ==
  CASE b.t = "num"  -> [ok |-> TRUE, v |-> Plain(b.n)]
    [] b.t = "obj"  -> [ok |-> TRUE, v |-> [kind |-> "map", key |-> b.key, n |-> b.n]]
    [] b.t = "jser" -> [ok |-> TRUE, v |-> [kind |-> "map", key |-> <<>>, n |-> b.n]]
    [] OTHER        -> [ok |-> FALSE, v |-> NoVal]

(***************************************************************************)
(* State.                                                                  *)
(***************************************************************************)
VARIABLES
  root,     \* the committed content of the DB: key -> stored bytes or NoRec
  core,     \* handle -> "DB" | "Transaction" | "none" (handle not created)
  txState,  \* transaction handle -> "unborn" | "open" | "closed"
  txBuf,    \* transaction handle -> key -> bytes written / NoRec (deleted) / Untouched
  parent,   \* transaction handle -> the handle OpenTransaction was called on
  txEnd,    \* transaction handle -> how it ended and how many keys it had buffered
  last,     \* the last completed call: operation, handle, error, deciding item, records
  pc,       \* caller -> the compound operation it is in the middle of
  res,      \* caller -> the result of its last completed operation
  races,    \* the operations that wrote although their check no longer held
  iter      \* the iteration session

vars == <<root, core, txState, txBuf, parent, txEnd, last, pc, res, races, iter>>

EmptyStore == [k \in Keys |-> NoRec]

\* No iteration session: nothing was asked of GetIterator yet.
NoIter ==
  [state |-> "none", base |-> EmptyStore, prefix |-> <<>>, reverse |-> FALSE,
   snap |-> <<>>, pos |-> 0, released |-> FALSE, relCalls |-> 0, freed |-> 0,
   constant |-> FALSE, hasUnsent |-> FALSE, n |-> 0,
   emitted |-> <<>>, lastMore |-> "none", nexts |-> 0, rels |-> 0]
EmptyBuf == [k \in Keys |-> Untouched]

(***************************************************************************)
(* The engine behind LevelDBCore: *leveldb.DB and *leveldb.Transaction.    *)
(***************************************************************************)
IsTx(h) == core[h] = "Transaction"
TxOpen == \E t \in TxIds : txState[t] = "open"

\* Mutant of View: reads through a transaction handle see the DB alone.
ViewDB(h) == root

\* What reads through handle h see: the DB, or the DB overlaid with the
\* transaction's own writes.
View(h) ==
  IF IsTx(h)
    THEN [k \in Keys |-> IF txBuf[h][k] = Untouched THEN root[k] ELSE txBuf[h][k]]
    ELSE root

\* A transaction that was committed or discarded answers every call with
\* ErrTransactionDone.
CoreDone(h) == IsTx(h) /\ txState[h] # "open"

\* core.Has: a closed transaction answers (false, ErrTransactionDone).
CoreHas(h, k) ==
  IF CoreDone(h)
    THEN [exists |-> FALSE, err |-> "TransactionDone"]
    ELSE [exists |-> View(h)[k] # NoRec, err |-> "OK"]

\* core.Get
CoreGet(h, k) ==
  IF CoreDone(h)
    THEN [b |-> NoRec, err |-> "TransactionDone"]
    ELSE [b |-> View(h)[k], err |-> IF View(h)[k] = NoRec THEN "NotFound" ELSE "OK"]

\* A batch is a sequence of <<key, bytes>> records (bytes = NoRec deletes);
\* replaying it leaves, for each key, the last record written for it.
BatchKeys(ops) == {ops[i][1] : i \in 1..Len(ops)}
\* Mutant of LastFor: the first record written for a key stays.
FirstFor(ops, k) ==
  LET i == CHOOSE j \in 1..Len(ops) :
             /\ ops[j][1] = k
             /\ \A m \in 1..(j - 1) : ops[m][1] # k
  IN ops[i][2]

LastFor(ops, k) ==
  LET i == CHOOSE j \in 1..Len(ops) :
             /\ ops[j][1] = k
             /\ \A m \in (j + 1)..Len(ops) : ops[m][1] # k
  IN ops[i][2]
Replay(store, ops) ==
  [k \in Keys |-> IF k \in BatchKeys(ops) THEN LastFor(ops, k) ELSE store[k]]

\* A write on the DB waits for the write lock, which an open transaction holds
\* until it is committed or discarded.
WriteBlocked(h) == ~IsTx(h) /\ TxOpen

\* Mutant of CoreWrite: a transaction's writes also go straight to the DB.
CoreWriteThrough(h, ops) ==
  IF IsTx(h)
    THEN IF txState[h] # "open"
           THEN [root |-> root, buf |-> txBuf, err |-> "TransactionDone"]
           ELSE [root |-> Replay(root, ops),
                 buf |-> [txBuf EXCEPT ![h] = Replay(txBuf[h], ops)],
                 err |-> "OK"]
    ELSE [root |-> Replay(root, ops), buf |-> txBuf, err |-> "OK"]

\* core.Put / core.Delete / core.Write: the whole batch is applied at once.
\* Yields the stores after the call and the error it returns.
CoreWrite(h, ops) ==
  IF IsTx(h)
    THEN IF txState[h] # "open"
           THEN [root |-> root, buf |-> txBuf, err |-> "TransactionDone"]
           ELSE [root |-> root,
                 buf |-> [txBuf EXCEPT ![h] = Replay(txBuf[h], ops)],
                 err |-> "OK"]
    ELSE [root |-> Replay(root, ops), buf |-> txBuf, err |-> "OK"]

(***************************************************************************)
(* LevelDBBackend: queries.                                                *)
(***************************************************************************)
\* Has(k)
Has(h, k) == CoreHas(h, k)

\* GetRaw(k)
GetRaw(h, k) ==
  LET has == Has(h, k)
  IN IF ~has.exists THEN [b |-> NoRec, err |-> "NotFound"]
     ELSE IF has.err # "OK" THEN [b |-> NoRec, err |-> has.err]
     ELSE CoreGet(h, k)

\* Get(k, &i)
Get(h, k) ==
  LET raw == GetRaw(h, k)
  IN IF raw.err # "OK" THEN [v |-> NoVal, err |-> raw.err]
     ELSE IF ~Unmarshal(raw.b).ok THEN [v |-> NoVal, err |-> "DecodeError"]
     ELSE [v |-> Unmarshal(raw.b).v, err |-> "OK"]

(***************************************************************************)
(* LevelDBBackend: the part of each mutation that precedes its write.      *)
(* Each yields the error to return (err # "OK": the call returns without   *)
(* writing), the index of the item whose check ended the call (at), and    *)
(* the batch the call goes on to write.                                    *)
(***************************************************************************)
Outcome(err, at, ops) == [err |-> err, at |-> at, ops |-> ops]

\* New, lines 128-134: the custom serializer when the value has one
NewEncode(v) == IF v.kind = "ser" THEN Serialize(v) ELSE EncodeJSONValue(v)

\* Mutant of NewCheck: a blind put, the existence check left out.
NewCheckBlind(h, k, v) ==
  IF ~NewEncode(v).ok THEN Outcome("EncodeError", 0, <<>>)
  ELSE Outcome("OK", 0, << <<k, NewEncode(v).b>> >>)

\* New, lines 128-145
NewCheck(h, k, v) ==
  LET enc == NewEncode(v)
      has == Has(h, k)
  IN IF ~enc.ok THEN Outcome("EncodeError", 0, <<>>)
     ELSE IF has.exists THEN Outcome("AlreadyExists", 1, <<>>)
     ELSE IF has.err # "OK" THEN Outcome(has.err, 1, <<>>)
     ELSE Outcome("OK", 0, << <<k, enc.b>> >>)

\* Mutant of SetCheck: the existence check made before the encoding.
SetCheckExistsFirst(h, k, v) ==
  LET enc == EncodeJSONValue(v)
      has == Has(h, k)
  IN IF ~has.exists THEN Outcome("NotFound", 1, <<>>)
     ELSE IF has.err # "OK" THEN Outcome(has.err, 1, <<>>)
     ELSE IF ~enc.ok THEN Outcome("EncodeError", 0, <<>>)
     ELSE Outcome("OK", 0, << <<k, enc.b>> >>)

\* Set, lines 184-195
SetCheck(h, k, v) ==
  LET enc == EncodeJSONValue(v)
      has == Has(h, k)
  IN IF ~enc.ok THEN Outcome("EncodeError", 0, <<>>)
     ELSE IF ~has.exists THEN Outcome("NotFound", 1, <<>>)
     ELSE IF has.err # "OK" THEN Outcome(has.err, 1, <<>>)
     ELSE Outcome("OK", 0, << <<k, enc.b>> >>)

\* Mutant of RemoveCheck: the delete is issued whether or not the key exists.
RemoveCheckBlind(h, k) == Outcome("OK", 0, << <<k, NoRec>> >>)

\* Remove, lines 234-240
RemoveCheck(h, k) ==
  LET has == Has(h, k)
  IN IF ~has.exists THEN Outcome("NotFound", 1, <<>>)
     ELSE IF has.err # "OK" THEN Outcome(has.err, 1, <<>>)
     ELSE Outcome("OK", 0, << <<k, NoRec>> >>)

\* The batch built by the second loop of News and Sets: every item is encoded
\* as a whole; the first item that does not encode ends the call.
BatchOf(vs) == [i \in 1..Len(vs) |-> <<vs[i].Key, EncodeJSONItem(vs[i]).b>>]
Encodable(vs) == \A i \in 1..Len(vs) : EncodeJSONItem(vs[i]).ok

\* The index of the first item the check loop stops at, 0 if it stops at none.
FirstStop(h, vs, stopOnExists) ==
  LET stops(i) == \/ Has(h, vs[i].Key).exists = stopOnExists
                  \/ Has(h, vs[i].Key).err # "OK"
      S == {i \in 1..Len(vs) : stops(i)}
  IN IF S = {} THEN 0 ELSE CHOOSE i \in S : \A j \in S : i <= j

\* Mutant of NewsCheck: only the first item's key is checked.
NewsCheckFirstOnly(h, vs) ==
  IF Len(vs) < 1 THEN Outcome("EmptyBatch", 0, <<>>)
  ELSE IF Has(h, vs[1].Key).exists THEN Outcome("AlreadyExists", 1, <<>>)
  ELSE IF Has(h, vs[1].Key).err # "OK" THEN Outcome(Has(h, vs[1].Key).err, 1, <<>>)
  ELSE IF ~Encodable(vs) THEN Outcome("EncodeError", 0, <<>>)
  ELSE Outcome("OK", 0, BatchOf(vs))

\* Mutant of NewsCheck: the guard on the empty list left out.
NewsCheckNoGuard(h, vs) ==
  LET at == FirstStop(h, vs, TRUE)
  IN IF at # 0
       THEN IF Has(h, vs[at].Key).exists
              THEN Outcome("AlreadyExists", at, <<>>)
              ELSE Outcome(Has(h, vs[at].Key).err, at, <<>>)
     ELSE IF ~Encodable(vs) THEN Outcome("EncodeError", 0, <<>>)
     ELSE Outcome("OK", 0, BatchOf(vs))

\* News, lines 153-176
NewsCheck(h, vs) ==
  LET at == FirstStop(h, vs, TRUE)
  IN IF Len(vs) < 1 THEN Outcome("EmptyBatch", 0, <<>>)
     ELSE IF at # 0
       THEN IF Has(h, vs[at].Key).exists
              THEN Outcome("AlreadyExists", at, <<>>)
              ELSE Outcome(Has(h, vs[at].Key).err, at, <<>>)
     ELSE IF ~Encodable(vs) THEN Outcome("EncodeError", 0, <<>>)
     ELSE Outcome("OK", 0, BatchOf(vs))

\* Mutant of SetsCheck: an upsert, the existence checks left out.
SetsCheckUpsert(h, vs) ==
  IF Len(vs) < 1 THEN Outcome("EmptyBatch", 0, <<>>)
  ELSE IF ~Encodable(vs) THEN Outcome("EncodeError", 0, <<>>)
  ELSE Outcome("OK", 0, BatchOf(vs))

\* Sets, lines 203-226
SetsCheck(h, vs) ==
  LET at == FirstStop(h, vs, FALSE)
  IN IF Len(vs) < 1 THEN Outcome("EmptyBatch", 0, <<>>)
     ELSE IF at # 0
       THEN IF ~Has(h, vs[at].Key).exists
              THEN Outcome("NotFound", at, <<>>)
              ELSE Outcome(Has(h, vs[at].Key).err, at, <<>>)
     ELSE IF ~Encodable(vs) THEN Outcome("EncodeError", 0, <<>>)
     ELSE Outcome("OK", 0, BatchOf(vs))

(***************************************************************************)
(* Initial state: Init(config) has opened an empty store; no transaction   *)
(* handle exists, no caller is inside an operation, no iteration session.  *)
(***************************************************************************)
\* a completed call: operation, handle, error, the index of the item whose
\* check ended it, and the number of records it handed to the engine
Call(op, h, err, at, n) == [op |-> op, h |-> h, err |-> err, at |-> at, n |-> n]
NoCall == Call("none", Root, "OK", 0, 0)
Idle == [op |-> "idle", key |-> <<>>, ops |-> <<>>]
NoRes == [op |-> "none", key |-> <<>>, err |-> "OK"]
NotEnded == [by |-> "none", n |-> 0]
Buffered(t) == Cardinality({k \in Keys : txBuf[t][k] # Untouched})

Init ==
  /\ root = EmptyStore
  /\ core = [h \in Handles |-> IF h = Root THEN "DB" ELSE "none"]
  /\ txState = [t \in TxIds |-> "unborn"]
  /\ txBuf = [t \in TxIds |-> EmptyBuf]
  /\ parent = [t \in TxIds |-> Root]
  /\ txEnd = [t \in TxIds |-> NotEnded]
  /\ last = NoCall
  /\ pc = [c \in Callers |-> Idle]
  /\ res = [c \in Callers |-> NoRes]
  /\ races = {}
  /\ iter = NoIter

Live == {h \in Handles : core[h] # "none"}

(***************************************************************************)
(* The mutations, each run to completion by a single caller.               *)
(***************************************************************************)
\* A call that got the outcome `out` from its checks: it returns the error,
\* or performs its one engine write (waiting for the write lock) and returns
\* what the write returns.
Finish(op, h, out) ==
  /\ IF out.err # "OK"
       THEN /\ last' = Call(op, h, out.err, out.at, 0)
            /\ UNCHANGED <<root, txBuf>>
       ELSE /\ ~WriteBlocked(h)
            /\ root' = CoreWrite(h, out.ops).root
            /\ txBuf' = CoreWrite(h, out.ops).buf
            /\ last' = Call(op, h, CoreWrite(h, out.ops).err, 0, Len(out.ops))
  /\ UNCHANGED <<core, txState, parent, txEnd, pc, res, races, iter>>

New(h, k, v) == Finish("New", h, NewCheck(h, k, v))

Set(h, k, v) == Finish("Set", h, SetCheck(h, k, v))

Remove(h, k) == Finish("Remove", h, RemoveCheck(h, k))

News(h, vs) == Finish("News", h, NewsCheck(h, vs))

Sets(h, vs) == Finish("Sets", h, SetsCheck(h, vs))

(***************************************************************************)
(* Transaction lifecycle.                                                  *)
(***************************************************************************)
Lifecycle(op, h, err) == last' = Call(op, h, err, 0, 0)

\* Mutant of OpenTransaction: on a transaction handle it hands the handle
\* itself back without an error.
OpenTransactionSelf(h) ==
  IF IsTx(h)
    THEN /\ Lifecycle("OpenTransaction", h, "OK")
         /\ UNCHANGED <<root, core, txState, txBuf, parent, txEnd, pc, res, races, iter>>
    ELSE /\ ~TxOpen
         /\ \E t \in TxIds :
              /\ core[t] = "none"
              /\ \A u \in TxIds : core[u] = "none" => t <= u
              /\ core' = [core EXCEPT ![t] = "Transaction"]
              /\ txState' = [txState EXCEPT ![t] = "open"]
              /\ txBuf' = [txBuf EXCEPT ![t] = EmptyBuf]
              /\ parent' = [parent EXCEPT ![t] = h]
         /\ Lifecycle("OpenTransaction", h, "OK")
         /\ UNCHANGED <<root, txEnd, pc, res, races, iter>>

\* OpenTransaction: DB.OpenTransaction takes the write lock, so it waits while
\* another transaction is open.
OpenTransaction(h) ==
  IF IsTx(h)
    THEN /\ Lifecycle("OpenTransaction", h, "NoNestedTransaction")
         /\ UNCHANGED <<root, core, txState, txBuf, parent, txEnd, pc, res, races, iter>>
    ELSE /\ ~TxOpen
         /\ \E t \in TxIds :
              /\ core[t] = "none"
              /\ \A u \in TxIds : core[u] = "none" => t <= u
              /\ core' = [core EXCEPT ![t] = "Transaction"]
              /\ txState' = [txState EXCEPT ![t] = "open"]
              /\ txBuf' = [txBuf EXCEPT ![t] = EmptyBuf]
              /\ parent' = [parent EXCEPT ![t] = h]
         /\ Lifecycle("OpenTransaction", h, "OK")
         /\ UNCHANGED <<root, txEnd, pc, res, races, iter>>

\* Mutant of Discard: the buffered writes are applied instead of dropped.
DiscardApplies(h) ==
  IF ~IsTx(h)
    THEN /\ Lifecycle("Discard", h, "NotATransaction")
         /\ UNCHANGED <<root, core, txState, txBuf, parent, txEnd, pc, res, races, iter>>
    ELSE /\ root' = IF txState[h] = "open" THEN View(h) ELSE root
         /\ txState' = [txState EXCEPT ![h] = "closed"]
         /\ txBuf' = [txBuf EXCEPT ![h] = EmptyBuf]
         /\ txEnd' = IF txState[h] = "open"
                       THEN [txEnd EXCEPT ![h] = [by |-> "Discard", n |-> Buffered(h)]]
                       ELSE txEnd
         /\ Lifecycle("Discard", h, "OK")
         /\ UNCHANGED <<core, parent, pc, res, races, iter>>

\* Discard: Transaction.Discard returns nothing and does nothing on a closed
\* transaction, so the handle's Discard returns nil either way.
Discard(h) ==
  IF ~IsTx(h)
    THEN /\ Lifecycle("Discard", h, "NotATransaction")
         /\ UNCHANGED <<root, core, txState, txBuf, parent, txEnd, pc, res, races, iter>>
    ELSE /\ txState' = [txState EXCEPT ![h] = "closed"]
         /\ txBuf' = [txBuf EXCEPT ![h] = EmptyBuf]
         /\ txEnd' = IF txState[h] = "open"
                       THEN [txEnd EXCEPT ![h] = [by |-> "Discard", n |-> Buffered(h)]]
                       ELSE txEnd
         /\ Lifecycle("Discard", h, "OK")
         /\ UNCHANGED <<root, core, parent, pc, res, races, iter>>

\* Mutant of Commit: a commit of a closed transaction is a silent no-op.
CommitRepeatable(h) ==
  IF ~IsTx(h)
    THEN /\ Lifecycle("Commit", h, "NotATransaction")
         /\ UNCHANGED <<root, core, txState, txBuf, parent, txEnd, pc, res, races, iter>>
    ELSE IF txState[h] # "open"
      THEN /\ Lifecycle("Commit", h, "OK")
           /\ UNCHANGED <<root, core, txState, txBuf, parent, txEnd, pc, res, races, iter>>
      ELSE /\ root' = View(h)
           /\ txState' = [txState EXCEPT ![h] = "closed"]
           /\ txBuf' = [txBuf EXCEPT ![h] = EmptyBuf]
           /\ txEnd' = [txEnd EXCEPT ![h] = [by |-> "Commit", n |-> Buffered(h)]]
           /\ Lifecycle("Commit", h, "OK")
           /\ UNCHANGED <<core, parent, pc, res, races, iter>>

\* Commit: Transaction.Commit applies the buffered records to the DB at once;
\* on a closed transaction it returns errTransactionDone.
Commit(h) ==
  IF ~IsTx(h)
    THEN /\ Lifecycle("Commit", h, "NotATransaction")
         /\ UNCHANGED <<root, core, txState, txBuf, parent, txEnd, pc, res, races, iter>>
    ELSE IF txState[h] # "open"
      THEN /\ Lifecycle("Commit", h, "TransactionDone")
           /\ UNCHANGED <<root, core, txState, txBuf, parent, txEnd, pc, res, races, iter>>
      ELSE /\ root' = View(h)
           /\ txState' = [txState EXCEPT ![h] = "closed"]
           /\ txBuf' = [txBuf EXCEPT ![h] = EmptyBuf]
           /\ txEnd' = [txEnd EXCEPT ![h] = [by |-> "Commit", n |-> Buffered(h)]]
           /\ Lifecycle("Commit", h, "OK")
           /\ UNCHANGED <<core, parent, pc, res, races, iter>>

(***************************************************************************)
(* The sequential specification: one caller, whole calls.                  *)
(***************************************************************************)
Items == {Item(k, v) : k \in CallKeys, v \in BatchVals}
Batches == UNION {[1..n -> Items] : n \in 0..MaxBatch}

Next ==
  \/ \E h \in Live, k \in CallKeys, v \in Values : New(h, k, v)
  \/ \E h \in Live, k \in CallKeys, v \in SetVals : Set(h, k, v)
  \/ \E h \in Live, k \in CallKeys : Remove(h, k)
  \/ \E h \in Live, vs \in Batches : News(h, vs)
  \/ \E h \in Live, vs \in Batches : Sets(h, vs)
  \/ \E h \in Live : OpenTransaction(h)
  \/ \E h \in Live : Discard(h)
  \/ \E h \in Live : Commit(h)

Spec == Init /\ [][Next]_vars

(***************************************************************************)
(* Iteration: the engine's cursor and the two closures of GetIterator.     *)
(***************************************************************************)
\* Byte-lexicographic order of keys (the engine's comparer).
RECURSIVE Less(_, _)
Less(a, b) ==
  IF Len(b) = 0 THEN FALSE
  ELSE IF Len(a) = 0 THEN TRUE
  ELSE IF Head(a) # Head(b) THEN Head(a) < Head(b)
  ELSE Less(Tail(a), Tail(b))

\* leveldbUtil.BytesPrefix: the range [prefix, limit), where limit is the
\* prefix cut after its last byte below 0xff, that byte incremented; no upper
\* limit when there is no such byte.
NoLimit == <<256>>
RECURSIVE PrefixLimit(_)
PrefixLimit(p) ==
  IF Len(p) = 0 THEN NoLimit
  ELSE IF p[Len(p)] < 255 THEN [p EXCEPT ![Len(p)] = p[Len(p)] + 1]
  ELSE PrefixLimit(SubSeq(p, 1, Len(p) - 1))

\* Mutant of InRange: the range has its lower bound only.
InRangeNoLimit(k, prefix) == Len(prefix) = 0 \/ ~Less(k, prefix)

\* The range GetIterator hands to NewIterator (nil, the whole keyspace, for the
\* empty prefix), as the test a key passes to be in it.
InRange(k, prefix) ==
  \/ Len(prefix) = 0
  \/ /\ ~Less(k, prefix)
     /\ PrefixLimit(prefix) = NoLimit \/ Less(k, PrefixLimit(prefix))

\* The records of a store within the range, in ascending key order: what the
\* cursor made by NewIterator walks (a snapshot taken when it is made).
RECURSIVE Ascending(_, _)
Ascending(store, S) ==
  IF S = {} THEN <<>>
  ELSE LET k == CHOOSE x \in S : \A y \in S : x = y \/ Less(x, y)
       IN <<[key |-> k, b |-> store[k]]>> \o Ascending(store, S \ {k})
Snapshot(store, prefix) ==
  Ascending(store, {k \in Keys : store[k] # NoRec /\ InRange(k, prefix)})

\* The engine cursor, on an iteration record `it`: its position is 0 before
\* the first record, Len(snap) + 1 after the last. Each operation yields the
\* record after it and what it returns.
Stepped(it, ok) == [it |-> it, ok |-> ok]
CursorValid(it) == ~it.released /\ it.pos \in 1..Len(it.snap)
CursorKey(it) == IF CursorValid(it) THEN it.snap[it.pos].key ELSE <<>>
CursorValue(it) == IF CursorValid(it) THEN it.snap[it.pos].b ELSE NoRec

CursorLast(it) ==
  IF it.released THEN Stepped(it, FALSE)
  ELSE IF Len(it.snap) = 0 THEN Stepped([it EXCEPT !.pos = 0], FALSE)
  ELSE Stepped([it EXCEPT !.pos = Len(it.snap)], TRUE)

CursorNext(it) ==
  IF it.released \/ it.pos = Len(it.snap) + 1 THEN Stepped(it, FALSE)
  ELSE Stepped([it EXCEPT !.pos = it.pos + 1], it.pos + 1 <= Len(it.snap))

CursorPrev(it) ==
  IF it.released \/ it.pos = 0 THEN Stepped(it, FALSE)
  ELSE IF it.pos = Len(it.snap) + 1 THEN CursorLast(it)
  ELSE Stepped([it EXCEPT !.pos = it.pos - 1], it.pos - 1 >= 1)

\* Mutant of CursorRelease: the resources are freed on every call.
CursorReleaseUnguarded(it) ==
  [it EXCEPT !.released = TRUE, !.relCalls = it.relCalls + 1,
             !.freed = it.freed + 1]

\* iter.Release(): frees the cursor's resources unless it is released already
\* (relCalls counts the calls, freed the times the resources were freed).
CursorRelease(it) ==
  [it EXCEPT !.released = TRUE, !.relCalls = it.relCalls + 1,
             !.freed = IF it.released THEN it.freed ELSE it.freed + 1]

IterItem(it) == [N |-> it.n, Key |-> CursorKey(it), Value |-> CursorValue(it)]

\* GetIterator, lines 248-267: the cursor over the handle's view (over nothing
\* on a closed transaction), positioned on the last record when reverse.
NewCursor(h, prefix, reverse) ==
  [NoIter EXCEPT
     !.state = "open", !.prefix = prefix, !.reverse = reverse,
     !.base = IF CoreDone(h) THEN EmptyStore ELSE View(h),
     !.snap = IF CoreDone(h) THEN <<>> ELSE Snapshot(View(h), prefix)]

GetIteratorResult(h, prefix, reverse) ==
  LET it == NewCursor(h, prefix, reverse)
  IN IF ~reverse THEN it
     ELSE IF ~CursorLast(it).ok
       THEN [CursorRelease(CursorLast(it).it) EXCEPT !.constant = TRUE]
       ELSE [CursorLast(it).it EXCEPT !.hasUnsent = TRUE]

\* Mutant of NextResult: the record the cursor was positioned on by Last() is
\* not sent before the cursor moves.
NextResultNoUnsent(it) ==
  LET moved == IF it.reverse THEN CursorPrev(it) ELSE CursorNext(it)
      sent(x) == [x EXCEPT !.emitted = Append(x.emitted, IterItem(x)),
                           !.lastMore = "more"]
  IN IF it.constant THEN [it EXCEPT !.lastMore = "done"]
     ELSE IF ~moved.ok THEN [CursorRelease(moved.it) EXCEPT !.lastMore = "done"]
     ELSE sent([moved.it EXCEPT !.n = it.n + 1, !.hasUnsent = FALSE])

\* Mutant of NextResult: the counter is incremented before every emission,
\* that of the pre-positioned record included.
NextResultCountsUnsent(it) ==
  LET moved == IF it.reverse THEN CursorPrev(it) ELSE CursorNext(it)
      sent(x) == [x EXCEPT !.emitted = Append(x.emitted, IterItem(x)),
                           !.lastMore = "more"]
  IN IF it.constant THEN [it EXCEPT !.lastMore = "done"]
     ELSE IF it.hasUnsent THEN sent([it EXCEPT !.hasUnsent = FALSE, !.n = it.n + 1])
     ELSE IF ~moved.ok THEN [CursorRelease(moved.it) EXCEPT !.lastMore = "done"]
     ELSE sent([moved.it EXCEPT !.n = it.n + 1])

\* Mutant of NextResult: exhaustion is reported and the cursor kept.
NextResultKeepsCursor(it) ==
  LET moved == IF it.reverse THEN CursorPrev(it) ELSE CursorNext(it)
      sent(x) == [x EXCEPT !.emitted = Append(x.emitted, IterItem(x)),
                           !.lastMore = "more"]
  IN IF it.constant THEN [it EXCEPT !.lastMore = "done"]
     ELSE IF it.hasUnsent THEN sent([it EXCEPT !.hasUnsent = FALSE])
     ELSE IF ~moved.ok THEN [moved.it EXCEPT !.lastMore = "done"]
     ELSE sent([moved.it EXCEPT !.n = it.n + 1])

\* the first closure, lines 270-283
NextResult(it) ==
  LET moved == IF it.reverse THEN CursorPrev(it) ELSE CursorNext(it)
      sent(x) == [x EXCEPT !.emitted = Append(x.emitted, IterItem(x)),
                           !.lastMore = "more"]
  IN IF it.constant THEN [it EXCEPT !.lastMore = "done"]
     ELSE IF it.hasUnsent THEN sent([it EXCEPT !.hasUnsent = FALSE])
     ELSE IF ~moved.ok THEN [CursorRelease(moved.it) EXCEPT !.lastMore = "done"]
     ELSE sent([moved.it EXCEPT !.n = it.n + 1])

\* the second closure, lines 284-286
ReleaseResult(it) == IF it.constant THEN it ELSE CursorRelease(it)

IterUnchanged ==
  UNCHANGED <<root, core, txState, txBuf, parent, txEnd, last, pc, res, races>>

GetIterator(h, prefix, reverse) ==
  /\ iter' = GetIteratorResult(h, prefix, reverse)
  /\ IterUnchanged

IterNext ==
  /\ iter.state = "open"
  /\ iter.nexts + iter.rels < MaxCalls
  /\ iter' = [NextResult(iter) EXCEPT !.nexts = iter.nexts + 1]
  /\ IterUnchanged

IterRelease ==
  /\ iter.state = "open"
  /\ iter.nexts + iter.rels < MaxCalls
  /\ iter' = [ReleaseResult(iter) EXCEPT !.rels = iter.rels + 1]
  /\ IterUnchanged

\* The iteration specification: a store filled and emptied through the root
\* handle, and iteration sessions over it.
Prefixes == {<<>>, <<97>>, <<98>>}
IterVals == {Plain(1)}

NextIter ==
  \/ \E k \in Keys, v \in IterVals : New(Root, k, v)
  \/ \E k \in Keys : Remove(Root, k)
  \/ \E prefix \in Prefixes, reverse \in BOOLEAN : GetIterator(Root, prefix, reverse)
  \/ IterNext
  \/ IterRelease

SpecIter == Init /\ [][NextIter]_vars

(***************************************************************************)
(* The interleaved specification: two callers share the root handle; each  *)
(* compound operation is two steps, its checks (lines 140, 190, 235) and   *)
(* its engine write (lines 147, 197, 242), and the other caller may run    *)
(* between them. Caller c writes the value Plain(c).                       *)
(***************************************************************************)
ValueOf(c) == Plain(c)

\* The first step of a call: the encoding and the existence check. A failed
\* check returns; a passed one leaves the caller in front of its write.
Begin(c, op, k, out) ==
  /\ pc[c] = Idle
  /\ IF out.err # "OK"
       THEN /\ res' = [res EXCEPT ![c] = [op |-> op, key |-> k, err |-> out.err]]
            /\ UNCHANGED pc
       ELSE /\ pc' = [pc EXCEPT ![c] = [op |-> op, key |-> k, ops |-> out.ops]]
            /\ UNCHANGED res
  /\ UNCHANGED <<root, core, txState, txBuf, parent, txEnd, last, races, iter>>

NewBegin(c, k) == Begin(c, "New", k, NewCheck(Root, k, ValueOf(c)))

SetBegin(c, k) == Begin(c, "Set", k, SetCheck(Root, k, ValueOf(c)))

RemoveBegin(c, k) == Begin(c, "Remove", k, RemoveCheck(Root, k))

\* whether the check a pending call passed would fail now
Stale(c) ==
  IF pc[c].op = "New" THEN Has(Root, pc[c].key).exists
                      ELSE ~Has(Root, pc[c].key).exists

\* Mutant of WriteStep: the existence check is repeated with the write, as one
\* unit, and the call fails when it no longer holds.
WriteStepRechecks(c) ==
  /\ pc[c] # Idle
  /\ IF Stale(c)
       THEN /\ res' = [res EXCEPT ![c] =
                 [op |-> pc[c].op, key |-> pc[c].key,
                  err |-> IF pc[c].op = "New" THEN "AlreadyExists" ELSE "NotFound"]]
            /\ UNCHANGED <<root, races>>
       ELSE /\ root' = CoreWrite(Root, pc[c].ops).root
            /\ res' = [res EXCEPT ![c] =
                 [op |-> pc[c].op, key |-> pc[c].key,
                  err |-> CoreWrite(Root, pc[c].ops).err]]
            /\ UNCHANGED races
  /\ pc' = [pc EXCEPT ![c] = Idle]
  /\ UNCHANGED <<core, txState, txBuf, parent, txEnd, last, iter>>

\* The second step: core.Put / core.Delete with what the first step prepared,
\* whatever the store holds by now.
WriteStep(c) ==
  /\ pc[c] # Idle
  /\ root' = CoreWrite(Root, pc[c].ops).root
  /\ res' = [res EXCEPT ![c] =
       [op |-> pc[c].op, key |-> pc[c].key, err |-> CoreWrite(Root, pc[c].ops).err]]
  /\ races' = IF Stale(c) THEN races \cup {pc[c].op} ELSE races
  /\ pc' = [pc EXCEPT ![c] = Idle]
  /\ UNCHANGED <<core, txState, txBuf, parent, txEnd, last, iter>>

NextConc ==
  \/ \E c \in Callers, k \in CallKeys : NewBegin(c, k)
  \/ \E c \in Callers, k \in CallKeys : SetBegin(c, k)
  \/ \E c \in Callers, k \in CallKeys : RemoveBegin(c, k)
  \/ \E c \in Callers : WriteStep(c)

SpecConc == Init /\ [][NextConc]_vars

(***************************************************************************)
(* Properties.                                                             *)
(***************************************************************************)
\* the step just taken was a call of `op` (through handle h)
Did(op) == last'.op = op
DidOn(op, h) == last'.op = op /\ last'.h = h
StoresSame == root' = root /\ txBuf' = txBuf
OnlyLastChanged ==
  UNCHANGED <<root, core, txState, txBuf, parent, txEnd, pc, res, races, iter>>
\* the keys whose record, as seen through h, differs after the step
Changed(h) == {k \in Keys : View(h)'[k] # View(h)[k]}
NonEmpty == Batches \ {<<>>}
SomePresent(h, vs) == \E i \in 1..Len(vs) : Has(h, vs[i].Key).exists
AllPresent(h, vs) == \A i \in 1..Len(vs) : Has(h, vs[i].Key).exists

\* C1 (state part): in every reachable state, for every handle and every
\* non-empty batch with at least one key present in the handle's view, the
\* checks of News end the call with AlreadyExists and no batch to write.
C1_NewsRefuses ==
  \A h \in Live, vs \in NonEmpty :
    SomePresent(h, vs) => /\ NewsCheck(h, vs).err = "AlreadyExists"
                          /\ NewsCheck(h, vs).ops = <<>>
                          /\ Has(h, vs[NewsCheck(h, vs).at].Key).exists

\* C1: News with a non-empty batch holding a key that is present fails with
\* AlreadyExists, wherever that key stands in the batch, and the store is as
\* before: a News call that returns an error changes nothing, and no News call
\* ever changes the record of a key that was present.
C1_NewsExistingKeyFails ==
  /\ []C1_NewsRefuses
  /\ [][\A h \in Live : DidOn("News", h) =>
          /\ last'.err # "OK" => StoresSame
          /\ \A k \in Changed(h) : ~Has(h, k).exists]_vars

\* C1 witness: a News call has failed with AlreadyExists on the second item
\* of its batch, and the key of its first item (the other key) is still absent.
C1_Witness ==
  /\ last.op = "News" /\ last.err = "AlreadyExists" /\ last.at = 2
  /\ \E k \in Keys : ~Has(last.h, k).exists /\ Has(last.h, k).err = "OK"

\* C2 as stated: some key absent => NotFound; every key present => success.
C2_SetsAsStated ==
  \A h \in Live, vs \in NonEmpty :
    /\ ~AllPresent(h, vs) => SetsCheck(h, vs).err = "NotFound"
    /\ AllPresent(h, vs) => SetsCheck(h, vs).err = "OK"

\* C2 (state part of the amended claim)
C2_SetsDecides ==
  \A h \in Live, vs \in NonEmpty :
    /\ ~AllPresent(h, vs) =>
         SetsCheck(h, vs).err = "NotFound" /\ SetsCheck(h, vs).ops = <<>>
    /\ AllPresent(h, vs) /\ Encodable(vs) =>
         SetsCheck(h, vs).err = "OK" /\ SetsCheck(h, vs).ops = BatchOf(vs)
    /\ AllPresent(h, vs) /\ ~Encodable(vs) =>
         SetsCheck(h, vs).err = "EncodeError" /\ SetsCheck(h, vs).ops = <<>>

\* C2 (amended): Sets with a non-empty batch: if some key is absent the call
\* fails with NotFound; if every key is present and some item cannot be
\* encoded it fails with the encoding error; in both cases the store is as
\* before. If every key is present and every item can be encoded, the call
\* succeeds and all items are written in one batch: a successful Sets call
\* replays the batch of some all-present item list on the handle's view, and
\* no Sets call ever changes the record of a key that was absent.
C2_SetsMissingKeyFails ==
  /\ []C2_SetsDecides
  /\ [][\A h \in Live : DidOn("Sets", h) =>
          /\ last'.err # "OK" => StoresSame
          /\ \A k \in Changed(h) : Has(h, k).exists
          /\ last'.err = "OK" =>
               \E vs \in NonEmpty :
                 /\ AllPresent(h, vs) /\ Encodable(vs)
                 /\ View(h)' = Replay(View(h), BatchOf(vs))]_vars

\* C2 witness: a Sets call has failed with NotFound on the second item of its
\* batch while the key of its first item is present.
C2_Witness ==
  /\ last.op = "Sets" /\ last.err = "NotFound" /\ last.at = 2
  /\ \E k \in Keys : Has(last.h, k).exists

C3_NewRefuses ==
  \A h \in Live, k \in Keys, v \in Values :
    Has(h, k).exists =>
      /\ NewCheck(h, k, v).ops = <<>>
      /\ NewCheck(h, k, v).err =
           IF NewEncode(v).ok THEN "AlreadyExists" ELSE "EncodeError"

C4_SetRemoveRefuse ==
  \A h \in Live, k \in Keys :
    IF Has(h, k).exists
      THEN RemoveCheck(h, k) = Outcome("OK", 0, << <<k, NoRec>> >>)
      ELSE /\ RemoveCheck(h, k).err = "NotFound" /\ RemoveCheck(h, k).ops = <<>>
           /\ \A v \in Values :
                /\ SetCheck(h, k, v).ops = <<>>
                /\ SetCheck(h, k, v).err =
                     IF EncodeJSONValue(v).ok THEN "NotFound" ELSE "EncodeError"

Through(t) == last'.h = t /\ core'[t] = "Transaction"

\* C5: transaction isolation and atomic commit. Every call made through a
\* transaction handle leaves the DB (what reads on the root handle see)
\* unchanged, except a Commit that returns no error, which in that one step
\* makes the DB equal to the transaction's view: all of its writes, never a
\* part of them. While a transaction is open the root handle's reads are
\* answered from the DB alone.
C5_IsolationAndCommit ==
  /\ [](\A k \in Keys : Has(Root, k) = [exists |-> root[k] # NoRec, err |-> "OK"])
  /\ [][\A t \in TxIds : Through(t) =>
          IF last'.op = "Commit" /\ last'.err = "OK"
            THEN /\ txState[t] = "open"
                 /\ root' = View(t)
                 /\ \A k \in Keys : Get(Root, k)' = Get(t, k)
            ELSE root' = root]_vars

\* C5 witness: a Commit has succeeded for a transaction that had buffered
\* writes for both keys, and the root handle reads a value.
C5_Witness ==
  /\ last.op = "Commit" /\ last.err = "OK"
  /\ \E t \in TxIds : last.h = t /\ txEnd[t] = [by |-> "Commit", n |-> 2]
  /\ \E k \in Keys, v \in PlainVals : Get(Root, k) = [v |-> v, err |-> "OK"]

\* C6 (state part): a discarded transaction is closed, holds no buffered
\* write, and refuses every mutation and Commit made through its handle.
C6_DiscardedIsDead ==
  \A t \in TxIds : txEnd[t].by = "Discard" =>
    /\ txState[t] = "closed" /\ txBuf[t] = EmptyBuf
    /\ \A k \in Keys, v \in Values :
         /\ NewCheck(t, k, v).err # "OK"
         /\ SetCheck(t, k, v).err # "OK"
         /\ RemoveCheck(t, k).err # "OK"
    /\ \A vs \in Batches : NewsCheck(t, vs).err # "OK" /\ SetsCheck(t, vs).err # "OK"

\* C6: Discard abandons all buffered writes: the Discard of a transaction
\* leaves the DB as it is (as it was when the transaction was opened, DB
\* writes waiting while a transaction is open), drops the buffer and closes
\* the transaction, and no later call through the discarded handle changes
\* the DB.
C6_DiscardAbandons ==
  /\ []C6_DiscardedIsDead
  /\ [][\A t \in TxIds :
          /\ txState[t] = "open" => root' = root \/ DidOn("Commit", t)
          /\ Through(t) /\ Did("Discard") =>
               /\ root' = root
               /\ txState'[t] = "closed" /\ txBuf'[t] = EmptyBuf
               /\ \A k \in Keys : Has(Root, k)' = Has(Root, k)
          /\ Through(t) /\ txEnd[t].by = "Discard" => root' = root]_vars

\* C6 witness: a transaction that had buffered writes for both keys has been
\* discarded and the root handle sees no key.
C6_Witness ==
  /\ last.op = "Discard" /\ last.err = "OK"
  /\ \E t \in TxIds : last.h = t /\ txEnd[t] = [by |-> "Discard", n |-> 2]
  /\ \A k \in Keys : ~Has(Root, k).exists

C8_NoNesting ==
  /\ core[Root] = "DB"
  /\ \A t \in TxIds :
       /\ core[t] \in {"none", "Transaction"}
       /\ core[t] = "none" <=> txState[t] = "unborn"
       /\ core[t] = "Transaction" => core[parent[t]] = "DB"
  /\ Cardinality({t \in TxIds : txState[t] = "open"}) <= 1

\* C8: lifecycle operations are guarded by the kind of handle:
\* OpenTransaction on a transaction handle fails with NoNestedTransaction and
\* creates no transaction; Commit and Discard on the root handle fail with
\* NotATransaction; in all three cases nothing but the call's result changes.
C8_LifecycleGuards ==
  /\ []C8_NoNesting
  /\ [][\A h \in Handles :
          /\ DidOn("OpenTransaction", h) /\ core[h] = "Transaction" =>
               last'.err = "NoNestedTransaction" /\ OnlyLastChanged
          /\ (DidOn("Commit", h) \/ DidOn("Discard", h)) /\ core[h] = "DB" =>
               last'.err = "NotATransaction" /\ OnlyLastChanged
          /\ DidOn("OpenTransaction", h) /\ last'.err = "OK" =>
               /\ core[h] = "DB"
               /\ \E t \in TxIds : /\ core[t] = "none" /\ parent'[t] = h
                                   /\ core' = [core EXCEPT ![t] = "Transaction"]]_vars

\* C8 witness: OpenTransaction has failed with NoNestedTransaction on a
\* transaction handle that is still open.
C8_Witness ==
  /\ last.op = "OpenTransaction" /\ last.err = "NoNestedTransaction"
  /\ \E t \in TxIds : last.h = t /\ txState[t] = "open"

\* C9 (state part): a caller stands in front of its write only with the
\* batch its operation prepared: the encoding of its own value for New and
\* Set, the deletion record for Remove.
C9_Pending ==
  \A c \in Callers : pc[c] # Idle =>
    /\ pc[c].op \in {"New", "Set", "Remove"}
    /\ pc[c].ops = << <<pc[c].key,
                        IF pc[c].op = "Remove" THEN NoRec
                        ELSE EncodeJSONValue(ValueOf(c)).b>> >>

\* C9: the existence check and the write of a compound operation are two
\* steps. A caller passes to its write only when its check holds at that
\* moment; its write is then performed and returns success whatever the store
\* holds by then, so that the key holds the writer's value (or is gone, for
\* Remove) even when the other caller has changed it in between. Nothing is
\* written by a call whose check fails.
C9_CheckThenWrite ==
  /\ []C9_Pending
  /\ [][/\ pc' = pc => root' = root
       /\ \A c \in Callers :
            /\ pc[c] = Idle /\ pc'[c] # Idle =>
                 /\ root' = root
                 /\ IF pc'[c].op = "New" THEN ~Has(Root, pc'[c].key).exists
                                         ELSE Has(Root, pc'[c].key).exists
            /\ pc[c] # Idle /\ pc'[c] = Idle =>
                 /\ res'[c] = [op |-> pc[c].op, key |-> pc[c].key, err |-> "OK"]
                 /\ root' = [root EXCEPT ![pc[c].key] = pc[c].ops[1][2]]]_vars

\* C9 witness: both callers have returned success from New on the same key,
\* a New and a Set have each written after their check had stopped holding,
\* and the key holds the value of caller 2, whose write came last.
C9_Witness ==
  /\ \E k \in CallKeys :
       /\ res[1] = [op |-> "New", key |-> k, err |-> "OK"]
       /\ res[2] = [op |-> "New", key |-> k, err |-> "OK"]
       /\ Get(Root, k) = [v |-> ValueOf(2), err |-> "OK"]
  /\ {"New", "Set"} \subseteq races

\* the keys a store holds
KeysOf(store) == {k \in Keys : store[k] # NoRec}
EmittedKeys == {iter.emitted[i].Key : i \in 1..Len(iter.emitted)}
\* x comes before y in the direction of the session
Before(x, y) == IF iter.reverse THEN Less(y, x) ELSE Less(x, y)

\* C10: full-keyspace iteration (empty prefix) over a store holding N distinct
\* keys, next() called repeatedly and release() never: each of the first N
\* calls emits an item, the items carry the keys of the store in ascending
\* byte order (descending when reverse), each key once and none skipped, with
\* the stored bytes as value, and call N+1 (and every later one) reports
\* hasMore = false. N = 0 and N = 1 included, in both directions.
C10_FullIteration ==
  (iter.state = "open" /\ iter.prefix = <<>> /\ iter.rels = 0) =>
    LET N == Cardinality(KeysOf(iter.base))
        e == iter.emitted
    IN /\ Len(e) = IF iter.nexts <= N THEN iter.nexts ELSE N
       /\ iter.lastMore = IF iter.nexts = 0 THEN "none"
                          ELSE IF iter.nexts <= N THEN "more" ELSE "done"
       /\ \A i \in 1..Len(e) :
            /\ e[i].Key \in KeysOf(iter.base)
            /\ e[i].Value = iter.base[e[i].Key]
            /\ \A j \in (i + 1)..Len(e) : Before(e[i].Key, e[j].Key)
            /\ \A k \in KeysOf(iter.base) \ EmittedKeys : Before(e[i].Key, k)

\* C10 witness: a reverse session over the whole keyspace of a store holding
\* three keys has emitted three items and its fourth next() reported the end.
C10_Witness ==
  /\ iter.state = "open" /\ iter.prefix = <<>> /\ iter.reverse /\ iter.rels = 0
  /\ Cardinality(KeysOf(iter.base)) = 3
  /\ Len(iter.emitted) = 3 /\ iter.nexts = 4 /\ iter.lastMore = "done"

\* key k starts with the bytes of p
HasPrefix(k, p) == Len(k) >= Len(p) /\ SubSeq(k, 1, Len(p)) = p
Prefixed(store, p) == {k \in KeysOf(store) : HasPrefix(k, p)}

\* C11: prefix iteration (non-empty prefix p), next() called repeatedly and
\* release() never: every emitted item carries a stored key that starts with
\* p, with its stored bytes; the keys come in ascending order (descending when
\* reverse), each once and none of the prefixed keys skipped; the calls emit
\* until all M prefixed keys were emitted and call M+1 reports the end, so
\* that at exhaustion the emitted keys are exactly the prefixed keys. Keys
\* outside the prefix, smaller or greater than the prefixed ones, never appear.
C11_PrefixIteration ==
  (iter.state = "open" /\ iter.prefix # <<>> /\ iter.rels = 0) =>
    LET P == Prefixed(iter.base, iter.prefix)
        M == Cardinality(P)
        e == iter.emitted
    IN /\ Len(e) = IF iter.nexts <= M THEN iter.nexts ELSE M
       /\ iter.lastMore = IF iter.nexts = 0 THEN "none"
                          ELSE IF iter.nexts <= M THEN "more" ELSE "done"
       /\ iter.lastMore = "done" => EmittedKeys = P
       /\ \A i \in 1..Len(e) :
            /\ e[i].Key \in P
            /\ e[i].Value = iter.base[e[i].Key]
            /\ \A j \in (i + 1)..Len(e) : Before(e[i].Key, e[j].Key)
            /\ \A k \in P \ EmittedKeys : Before(e[i].Key, k)

\* C11 witness: a reverse session with prefix "a" over a store that holds "a",
\* "ab" and the greater key "b" has emitted "ab" then "a" and reported the end.
C11_Witness ==
  /\ iter.state = "open" /\ iter.prefix = <<97>> /\ iter.reverse /\ iter.rels = 0
  /\ KeysOf(iter.base) = Keys
  /\ Len(iter.emitted) = 2 /\ iter.lastMore = "done"
  /\ iter.emitted[1].Key = <<97, 98>> /\ iter.emitted[2].Key = <<97>>

\* C12: automatic release on exhaustion. In every session, forward or reverse,
\* with any prefix: when the last next() reported hasMore = false the engine
\* cursor is released and its resources freed, and if the caller has not
\* called release() it is the session itself that called the cursor's
\* Release. A reverse session over an empty range has released the cursor when
\* GetIterator returns, never emits, and each of its next() calls reports
\* hasMore = false.
C12_AutoRelease ==
  iter.state = "open" =>
    /\ iter.lastMore = "done" =>
         /\ iter.released /\ iter.freed = 1
         /\ iter.rels = 0 => iter.relCalls >= 1
    /\ (iter.reverse /\ Len(iter.snap) = 0) =>
         /\ iter.released /\ iter.freed = 1 /\ iter.relCalls = 1
         /\ iter.emitted = <<>>
         /\ iter.lastMore = IF iter.nexts = 0 THEN "none" ELSE "done"

\* C12 witness: a reverse session with a prefix has emitted its two keys, its
\* third next() reported the end, and the cursor is released although
\* release() was never called.
C12_Witness ==
  /\ iter.state = "open" /\ iter.reverse /\ iter.prefix # <<>> /\ iter.rels = 0
  /\ Len(iter.emitted) = 2 /\ iter.nexts = 3 /\ iter.lastMore = "done"
  /\ iter.released

C14_TxView ==
  \A t \in TxIds : txState[t] = "open" =>
    \A k \in Keys :
      /\ Has(t, k).err = "OK"
      /\ Has(t, k).exists =
           IF txBuf[t][k] = Untouched THEN Has(Root, k).exists
                                      ELSE txBuf[t][k] # NoRec
      /\ \A v \in PlainVals :
           IF Has(t, k).exists
             THEN /\ NewCheck(t, k, v).err = "AlreadyExists"
                  /\ NewsCheck(t, <<Item(k, v)>>).err = "AlreadyExists"
                  /\ SetCheck(t, k, v).err = "OK"
                  /\ SetsCheck(t, <<Item(k, v)>>).err = "OK"
                  /\ RemoveCheck(t, k).err = "OK"
             ELSE /\ NewCheck(t, k, v).err = "OK"
                  /\ NewsCheck(t, <<Item(k, v)>>).err = "OK"
                  /\ SetCheck(t, k, v).err = "NotFound"
                  /\ SetsCheck(t, <<Item(k, v)>>).err = "NotFound"
                  /\ RemoveCheck(t, k).err = "NotFound"

\* C14: the mutations behave on a transaction handle as on the root handle,
\* against the transaction's view. After a successful tx.New(k, v), tx.Has(k)
\* is true, a further tx.New(k, v2) fails with AlreadyExists and tx.Set(k, v2)
\* passes its check, while the DB is unchanged (root Has(k) still false when
\* it was); after a successful tx.Remove(k), tx.Has(k) is false while root
\* Has(k) is what it was.
C14_TransactionalView ==
  /\ []C14_TxView
  /\ [][\A t \in TxIds : (Through(t) /\ txState[t] = "open" /\ last'.err = "OK") =>
          /\ Did("New") =>
               /\ root' = root
               /\ \E k \in Keys :
                    /\ ~Has(t, k).exists /\ Has(t, k)'.exists
                    /\ Has(Root, k)' = Has(Root, k)
                    /\ \A v2 \in PlainVals :
                         /\ NewCheck(t, k, v2)'.err = "AlreadyExists"
                         /\ SetCheck(t, k, v2)'.err = "OK"
          /\ Did("Remove") =>
               /\ root' = root
               /\ \E k \in Keys :
                    /\ Has(t, k).exists /\ ~Has(t, k)'.exists
                    /\ Has(Root, k)' = Has(Root, k)]_vars

\* C14 witness: through an open transaction handle a New has failed with
\* AlreadyExists on a key the transaction created and the DB does not hold,
\* while a key the DB holds was removed in the transaction.
C14_Witness ==
  /\ last.op = "New" /\ last.err = "AlreadyExists"
  /\ \E t \in TxIds :
       /\ last.h = t /\ txState[t] = "open"
       /\ \E k \in Keys : Has(t, k).exists /\ ~Has(Root, k).exists
       /\ \E k \in Keys : ~Has(t, k).exists /\ Has(Root, k).exists

\* C15 as stated: after a successful News or Sets, every key the call wrote
\* holds the generic encoding of its item's value, the bytes Set stores for
\* that value, so that Get of the key yields a value as given in an item.
C15_BatchValuesReadable ==
  [][\A h \in Live :
       ((DidOn("News", h) \/ DidOn("Sets", h)) /\ last'.err = "OK") =>
         \A k \in Changed(h) :
           /\ \E v \in BatchVals : /\ EncodeJSONValue(v).ok
                                   /\ View(h)'[k] = EncodeJSONValue(v).b
           /\ Get(h, k)'.err = "OK" /\ Get(h, k)'.v \in PlainVals]_vars

\* C16 (state part): on every handle, a closed transaction included, the
\* checks of News and Sets end a call with an empty list with EmptyBatch,
\* no item having been checked and nothing to write; a non-empty list never
\* gets EmptyBatch.
C16_EmptyRefused ==
  \A h \in Live :
    /\ NewsCheck(h, <<>>) = Outcome("EmptyBatch", 0, <<>>)
    /\ SetsCheck(h, <<>>) = Outcome("EmptyBatch", 0, <<>>)
    /\ \A vs \in NonEmpty : /\ NewsCheck(h, vs).err # "EmptyBatch"
                             /\ SetsCheck(h, vs).err # "EmptyBatch"

\* C16: News() and Sets() with an empty item list fail with EmptyBatch, make
\* no existence check and no write on the engine (so also on a transaction
\* that was closed, whose engine calls would fail), and leave the store
\* unchanged, on the root handle and on a transaction handle.
C16_EmptyBatch ==
  /\ []C16_EmptyRefused
  /\ [][\A h \in Live :
          ((DidOn("News", h) \/ DidOn("Sets", h)) /\ last'.err = "EmptyBatch") =>
            /\ OnlyLastChanged
            /\ last'.at = 0 /\ last'.n = 0]_vars

\* C16 witness: Sets with an empty list has failed with EmptyBatch on a
\* transaction handle that was already closed, the DB holding a key.
C16_Witness ==
  /\ last.op = "Sets" /\ last.err = "EmptyBatch"
  /\ \E t \in TxIds : last.h = t /\ txState[t] = "closed"
  /\ \E k \in Keys : Has(Root, k).exists

C18_EncodingDecides ==
  \A h \in Live, k \in Keys, v \in Values :
    /\ ~NewEncode(v).ok => NewCheck(h, k, v) = Outcome("EncodeError", 0, <<>>)
    /\ ~EncodeJSONValue(v).ok => SetCheck(h, k, v) = Outcome("EncodeError", 0, <<>>)
    /\ NewEncode(v).ok =>
         /\ NewCheck(h, k, v).err # "EncodeError"
         /\ Has(h, k).exists => NewCheck(h, k, v) = Outcome("AlreadyExists", 1, <<>>)
    /\ EncodeJSONValue(v).ok =>
         /\ SetCheck(h, k, v).err # "EncodeError"
         /\ ~Has(h, k).exists => SetCheck(h, k, v) = Outcome("NotFound", 1, <<>>)

RecordOf(it) == EncodeJSONItem(it).b

\* C19 (state part): for every handle, every key x absent from its view and
\* all encodable values v1, v2, the checks of News([{x,v1},{x,v2}]) pass and
\* the batch, replayed, leaves x holding the record of the second item;
\* whereas New(x, v1) passes its check and writes the encoding of v1.
C19_DuplicatesPass ==
  \A h \in Live, x \in CallKeys, v1 \in PlainVals, v2 \in PlainVals :
    (Has(h, x).err = "OK" /\ ~Has(h, x).exists) =>
      LET vs == <<Item(x, v1), Item(x, v2)>>
      IN /\ NewsCheck(h, vs) = Outcome("OK", 0, BatchOf(vs))
         /\ Replay(View(h), NewsCheck(h, vs).ops)[x] = RecordOf(Item(x, v2))
         /\ NewCheck(h, x, v1) = Outcome("OK", 0, << <<x, EncodeJSONValue(v1).b>> >>)

\* C19: every existence check of a News call is evaluated against the store
\* as it was before any write of the call: a successful News wrote only keys
\* that were all absent before it, each left with the record of the last
\* item the batch has for it, so News([{x,1},{x,2}]) with x absent succeeds
\* and x holds the second item. After a successful New(x, v1), a New(x, v2)
\* fails with AlreadyExists and writes nothing, x keeping v1.
C19_IntraBatchDuplicates ==
  /\ []C19_DuplicatesPass
  /\ [][\A h \in Live : last'.err = "OK" =>
          /\ DidOn("News", h) =>
               \E vs \in NonEmpty :
                 /\ Len(vs) = last'.n
                 /\ ~SomePresent(h, vs)
                 /\ Changed(h) = {vs[i].Key : i \in 1..Len(vs)}
                 /\ \A i \in 1..Len(vs) :
                      (\A j \in (i + 1)..Len(vs) : vs[j].Key # vs[i].Key) =>
                        View(h)'[vs[i].Key] = RecordOf(vs[i])
          /\ DidOn("New", h) =>
               \E x \in Keys :
                 /\ Changed(h) = {x}
                 /\ \A v2 \in PlainVals :
                      NewCheck(h, x, v2)' = Outcome("AlreadyExists", 1, <<>>)]_vars

\* C19 witness: a News call on the root handle has succeeded with two records
\* and the store holds one key only, with the item whose value is 2: both
\* records were for that key.
C19_Witness ==
  /\ last.op = "News" /\ last.err = "OK" /\ last.h = Root /\ last.n = 2
  /\ \E x \in CallKeys :
       /\ KeysOf(root) = {x}
       /\ root[x] = RecordOf(Item(x, Plain(2)))

\* C17: sequence numbering of one session. The i-th emitted item carries
\* N = i in a forward session (the counter is incremented before the first
\* emission) and N = i - 1 in a reverse session (the pre-positioned last
\* record is emitted before any increment): N increases by exactly 1 from one
\* emitted item to the next and never repeats, and the session's counter is
\* the N of the last item emitted.
C17_SequenceNumbers ==
  iter.state = "open" =>
    LET e == iter.emitted
    IN /\ \A i \in 1..Len(e) : e[i].N = IF iter.reverse THEN i - 1 ELSE i
       /\ \A i \in 1..(Len(e) - 1) : e[i + 1].N = e[i].N + 1
       /\ iter.n = IF Len(e) = 0 THEN 0 ELSE e[Len(e)].N

\* C17 witness: a reverse session has emitted three items, numbered 0, 1, 2.
C17_Witness ==
  /\ iter.state = "open" /\ iter.reverse /\ Len(iter.emitted) = 3
  /\ iter.emitted[1].N = 0 /\ iter.emitted[2].N = 1 /\ iter.emitted[3].N = 2

\* C20 as stated: once release() has been called on a session, or next() has
\* reported hasMore = false, every later next() reports hasMore = false and
\* emits no record, forward and reverse, whether or not next() had been
\* called before.
C20_NothingAfterRelease ==
  [][(/\ iter.state = "open" /\ iter'.state = "open"
      /\ iter'.nexts = iter.nexts + 1
      /\ iter.rels > 0 \/ iter.lastMore = "done") =>
        /\ iter'.lastMore = "done"
        /\ iter'.emitted = iter.emitted]_vars

====
